---- MODULE Spec2Model ----
(***************************************************************************)
(* The fuzzy search utility of src/src/utils: normalize, generateNGrams,   *)
(* levenshtein and fuzzySearch with its module-wide cache.                 *)
(*                                                                         *)
(* A JavaScript string is a sequence of one-character strings; a           *)
(* JavaScript value is a record tagged with its kind.                      *)
(***************************************************************************)
EXTENDS Integers, Sequences, FiniteSets, TLC

VARIABLES
  cache,  \* fuzzySearch.ts:3, the module-wide Map: cache key -> stored results
  call,   \* the latest fuzzySearch call: its arguments, the path taken, what it computed
  lev     \* a direct levenshtein call: its arguments and its return value

vars == <<cache, call, lev>>

Range(s) == {s[i] : i \in 1..Len(s)}

Min2(x, y) == IF x <= y THEN x ELSE y

Max2(x, y) == IF x >= y THEN x ELSE y

Min3(x, y, z) == Min2(x, Min2(y, z))

(***************************************************************************)
(* JavaScript values and String(value)                                     *)
(***************************************************************************)
Undefined == [kind |-> "undefined"]

Null == [kind |-> "null"]

Num(n) == [kind |-> "number", v |-> n]

Txt(s) == [kind |-> "string", v |-> s]

Digits == <<"0", "1", "2", "3", "4", "5", "6", "7", "8", "9">>

RECURSIVE DigitsOf(_)
DigitsOf(n) ==
  IF n < 10 THEN <<Digits[n + 1]>>
  ELSE DigitsOf(n \div 10) \o <<Digits[(n % 10) + 1]>>

\* Number::toString of an integer, as String(n) and a template literal apply it.
NumberToString(n) == IF n < 0 THEN <<"-">> \o DigitsOf(-n) ELSE DigitsOf(n)

\* String(value), fuzzySearch.ts:40.
ToStringJS(value) ==
  CASE value.kind = "string" -> value.v
    [] value.kind = "number" -> NumberToString(value.v)
    [] value.kind = "null" -> <<"n", "u", "l", "l">>
    [] value.kind = "undefined" -> <<"u", "n", "d", "e", "f", "i", "n", "e", "d">>

\* item[key], fuzzySearch.ts:40: a property the object lacks reads as undefined.
GetProperty(item, key) == IF key \in DOMAIN item THEN item[key] ELSE Undefined

(***************************************************************************)
(* normalize, fuzzySearch.ts:5-7                                           *)
(***************************************************************************)
UpperLetters ==
  <<"A", "B", "C", "D", "E", "F", "G", "H", "I", "J", "K", "L", "M",
    "N", "O", "P", "Q", "R", "S", "T", "U", "V", "W", "X", "Y", "Z">>

LowerLetters ==
  <<"a", "b", "c", "d", "e", "f", "g", "h", "i", "j", "k", "l", "m",
    "n", "o", "p", "q", "r", "s", "t", "u", "v", "w", "x", "y", "z">>

\* The lower-case letter of each upper-case one.
LowerOf ==
  [c \in Range(UpperLetters) |->
     LowerLetters[CHOOSE i \in 1..Len(UpperLetters) : UpperLetters[i] = c]]

ToLowerChar(c) == IF c \in DOMAIN LowerOf THEN LowerOf[c] ELSE c

toLowerCase(str) == [i \in 1..Len(str) |-> ToLowerChar(str[i])]

\* The characters the class [a-z0-9 ] holds; every other one is removed.
KeptChars == {" "} \cup Range(LowerLetters) \cup Range(Digits)

KeptChar(c) == c \in KeptChars

StripOthers(str) == SelectSeq(str, KeptChar)

RECURSIVE trimStart(_)
trimStart(str) ==
  IF str # <<>> /\ Head(str) = " " THEN trimStart(Tail(str)) ELSE str

RECURSIVE trimEnd(_)
trimEnd(str) ==
  IF str # <<>> /\ str[Len(str)] = " "
  THEN trimEnd(SubSeq(str, 1, Len(str) - 1)) ELSE str

\* String.prototype.trim. After StripOthers a space is the only white space left.
trim(str) == trimEnd(trimStart(str))

normalize(str) == trim(StripOthers(toLowerCase(str)))

(***************************************************************************)
(* String helpers of fuzzySearch                                           *)
(***************************************************************************)
startsWith(str, prefix) ==
  Len(prefix) <= Len(str) /\ SubSeq(str, 1, Len(prefix)) = prefix

includes(str, part) ==
  \E i \in 0..(Len(str) - Len(part)) : SubSeq(str, i + 1, i + Len(part)) = part

\* str.split(/\s+/): the pieces between maximal runs of white space; a run at
\* either end leaves an empty piece there, and "" splits into [""].
RECURSIVE SplitFrom(_, _, _, _)
SplitFrom(str, i, piece, pieces) ==
  IF i > Len(str) THEN Append(pieces, piece)
  ELSE IF str[i] = " "
       THEN LET rest == {j \in (i + 1)..Len(str) : str[j] # " "}
                next == IF rest = {} THEN Len(str) + 1
                        ELSE CHOOSE j \in rest : \A k \in rest : j <= k
            IN SplitFrom(str, next, <<>>, Append(pieces, piece))
       ELSE SplitFrom(str, i + 1, Append(piece, str[i]), pieces)

split(str) == SplitFrom(str, 1, <<>>, <<>>)

\* words.join(" ")
RECURSIVE join(_)
join(words) ==
  IF Len(words) = 0 THEN <<>>
  ELSE IF Len(words) = 1 THEN words[1]
  ELSE words[1] \o <<" ">> \o join(Tail(words))

(***************************************************************************)
(* generateNGrams, fuzzySearch.ts:9-17                                     *)
(***************************************************************************)
\* The inner loop: for (let i = 0; i <= words.length - n; i++)
RECURSIVE NGramsOfLength(_, _, _, _)
NGramsOfLength(words, n, i, nGrams) ==
  IF i > Len(words) - n THEN nGrams
  ELSE NGramsOfLength(words, n, i + 1,
                      Append(nGrams, join(SubSeq(words, i + 1, i + n))))

\* The outer loop: for (let n = 1; n <= maxN; n++)
RECURSIVE NGramsFrom(_, _, _, _)
NGramsFrom(words, maxN, n, nGrams) ==
  IF n > maxN THEN nGrams
  ELSE NGramsFrom(words, maxN, n + 1, NGramsOfLength(words, n, 0, nGrams))

generateNGrams(words, maxN) == NGramsFrom(words, maxN, 1, <<>>)

(***************************************************************************)
(* levenshtein, levenshtein.ts:1-26                                        *)
(*                                                                         *)
(* dp is an array of Uint16Array rows: a store keeps the value modulo      *)
(* 2^16.  Row i reads row i-1 and itself only, so the rows are computed    *)
(* in order, each from the one before.                                     *)
(***************************************************************************)
Uint16Modulus == 65536

\* A store into a Uint16Array element.
Uint16(x) == x % Uint16Modulus

\* dp[0][j] = j for j = 0..n (levenshtein.ts:10); cell j is at index j + 1.
RECURSIVE FirstRow(_, _, _)
FirstRow(n, j, row) ==
  IF j > n THEN row ELSE FirstRow(n, j + 1, Append(row, Uint16(j)))

\* What Math.min chooses when the characters differ (levenshtein.ts:17-21).
EditCost(diagonal, left, above) == Min3(diagonal + 1, left + 1, above + 1)

\* The cell's value before it is stored (levenshtein.ts:15-21).
CellValue(same, diagonal, left, above) ==
  IF same THEN diagonal ELSE EditCost(diagonal, left, above)

\* The inner loop over j for one i (levenshtein.ts:13-22): row holds dp[i][0..j-1].
RECURSIVE FillRow(_, _, _, _, _, _)
FillRow(a, b, i, prev, j, row) ==
  IF j > Len(b) THEN row
  ELSE FillRow(a, b, i, prev, j + 1,
               Append(row, Uint16(CellValue(a[i] = b[j],
                                            prev[j], row[j], prev[j + 1]))))

\* Row i from row i-1; dp[i][0] = i is the store of levenshtein.ts:9.
NextRow(a, b, i, prev) == FillRow(a, b, i, prev, 1, <<Uint16(i)>>)

\* The outer loop's iterations lo..hi in order (levenshtein.ts:12). The range is
\* halved, and the first half is computed before the second starts, to keep the
\* depth of evaluation logarithmic in the length of a.
RECURSIVE FillRows(_, _, _, _, _)
FillRows(a, b, lo, hi, prev) ==
  IF lo > hi THEN prev
  ELSE IF lo = hi THEN NextRow(a, b, lo, prev)
  ELSE LET mid == (lo + hi) \div 2
           upper == FillRows(a, b, lo, mid, prev)
       IN IF Len(upper) = Len(prev)
          THEN FillRows(a, b, mid + 1, hi, upper)
          ELSE upper

levenshtein(a, b) ==
  LET m == Len(a)
      n == Len(b)
  IN IF m = 0 THEN n
     ELSE IF n = 0 THEN m
     ELSE FillRows(a, b, 1, m, FirstRow(n, 0, <<>>))[n + 1]


(***************************************************************************)
(* fuzzySearch, fuzzySearch.ts:19-68                                       *)
(***************************************************************************)
MinQueryLength == 3

DefaultLimit == 5

MinThreshold == 3

ThresholdPercent == 45

\* let bestScore = Infinity: above every Uint16 distance and every threshold
\* a call of the model passes.
Infinity == 65536

\* limit = 5: the default applies when the argument is undefined.
LimitOf(limit) == IF limit = Undefined THEN DefaultLimit ELSE limit.v

\* Math.floor(length * 0.45). The double 0.45 lies just above 45/100 by less than
\* 2^-56, so the rounded product has the floor of 45 * length / 100.
ScaledThreshold(length) == (length * ThresholdPercent) \div 100

\* As if line 29 read threshold || Math.max(...): 0 counts as not supplied.
EffectiveThresholdFalsy(threshold, normalizedQuery) ==
  IF threshold = Undefined \/ threshold = Null \/ threshold = Num(0)
  THEN Max2(MinThreshold, ScaledThreshold(Len(normalizedQuery)))
  ELSE threshold.v

\* threshold ?? Math.max(3, Math.floor(normalizedQuery.length * 0.45))
EffectiveThreshold(threshold, normalizedQuery) ==
  IF threshold = Undefined \/ threshold = Null
  THEN Max2(MinThreshold, ScaledThreshold(Len(normalizedQuery)))
  ELSE threshold.v

\* `${normalizedQuery}-${effectiveThreshold}-${limit}`
CacheKey(normalizedQuery, effectiveThreshold, limit) ==
  normalizedQuery \o <<"-">> \o NumberToString(effectiveThreshold)
                  \o <<"-">> \o NumberToString(limit)

\* for (const phrase of nGrams) bestScore = Math.min(bestScore, levenshtein(...))
RECURSIVE BestOverPhrases(_, _, _, _)
BestOverPhrases(nGrams, p, normalizedQuery, bestScore) ==
  IF p > Len(nGrams) THEN bestScore
  ELSE BestOverPhrases(nGrams, p + 1, normalizedQuery,
                       Min2(bestScore, levenshtein(nGrams[p], normalizedQuery)))

\* As if line 48 passed queryWords.length.
MaxPhraseWordsOfQuery(queryWords) == Len(queryWords)

\* The phrase lengths generateNGrams is asked for (fuzzySearch.ts:48).
MaxPhraseWords(queryWords) == Len(queryWords) + 1

\* One field that took neither early return (fuzzySearch.ts:45-56).
FieldScore(fieldValue, normalizedQuery, queryWords, bestScore) ==
  LET afterIncludes == IF includes(fieldValue, normalizedQuery)
                       THEN Min2(bestScore, 2) ELSE bestScore
      fieldWords == split(fieldValue)
      nGrams == generateNGrams(fieldWords, MaxPhraseWords(queryWords))
      afterPhrases == BestOverPhrases(nGrams, 1, normalizedQuery, afterIncludes)
      fullDist == levenshtein(fieldValue, normalizedQuery)
  IN [score |-> Min2(afterPhrases, fullDist), levCalls |-> Len(nGrams) + 1]

\* The loop over keys in the map callback (fuzzySearch.ts:37-59), from key k on.
\* levCalls counts the calls of levenshtein made for the record.
RECURSIVE ScoreFromKey(_, _, _, _, _, _, _)
ScoreFromKey(item, keys, k, normalizedQuery, queryWords, bestScore, levCalls) ==
  IF k > Len(keys) THEN [item |-> item, score |-> bestScore, levCalls |-> levCalls]
  ELSE LET fieldValue == normalize(ToStringJS(GetProperty(item, keys[k])))
       IN IF fieldValue = <<>>
          THEN ScoreFromKey(item, keys, k + 1, normalizedQuery, queryWords,
                            bestScore, levCalls)
          ELSE IF fieldValue = normalizedQuery
          THEN [item |-> item, score |-> 0, levCalls |-> levCalls]
          ELSE IF startsWith(fieldValue, normalizedQuery)
          THEN [item |-> item, score |-> 1, levCalls |-> levCalls]
          ELSE LET field == FieldScore(fieldValue, normalizedQuery, queryWords,
                                       bestScore)
               IN ScoreFromKey(item, keys, k + 1, normalizedQuery, queryWords,
                               field.score, levCalls + field.levCalls)

\* item => { ... }, the callback of items.map (fuzzySearch.ts:36-60)
ScoreItem(item, keys, normalizedQuery, queryWords) ==
  ScoreFromKey(item, keys, 1, normalizedQuery, queryWords, Infinity, 0)

\* .filter(result => result.score <= effectiveThreshold), fuzzySearch.ts:61
FilterByThreshold(scored, effectiveThreshold) ==
  SelectSeq(scored, LAMBDA result : result.score <= effectiveThreshold)

\* As if the sort were not stable: x goes before the entries of equal score.
InsertPositionBeforeTies(sorted, x) ==
  Cardinality({i \in 1..Len(sorted) : sorted[i].score - x.score < 0})

\* Where the sort puts x among the already ordered entries: after every entry
\* the comparator a.score - b.score does not place behind it.
InsertPosition(sorted, x) ==
  Cardinality({i \in 1..Len(sorted) : sorted[i].score - x.score <= 0})

\* .sort((a, b) => a.score - b.score), fuzzySearch.ts:62. Array.prototype.sort is
\* stable (ECMAScript 2019), which fixes its result for this comparator.
RECURSIVE SortFrom(_, _, _)
SortFrom(entries, i, sorted) ==
  IF i > Len(entries) THEN sorted
  ELSE LET at == InsertPosition(sorted, entries[i])
       IN SortFrom(entries, i + 1,
                   SubSeq(sorted, 1, at) \o <<entries[i]>>
                     \o SubSeq(sorted, at + 1, Len(sorted)))

SortByScore(entries) == SortFrom(entries, 1, <<>>)

\* As if slice kept the entry at index end too.
SliceEndOneMore(length, end) ==
  IF end < 0 THEN Max2(length + end, 0) ELSE Min2(end + 1, length)

\* Array.prototype.slice(0, end): a negative end counts from the end of the array.
SliceEnd(length, end) ==
  IF end < 0 THEN Max2(length + end, 0) ELSE Min2(end, length)

\* .map(result => result.item).slice(0, limit), fuzzySearch.ts:63-64
TakeItems(sorted, limit) ==
  [i \in 1..SliceEnd(Len(sorted), limit) |-> sorted[i].item]

\* As if line 31 were missing: every call computes.
CacheHasNever(key) == FALSE

\* cache.has(cacheKey), fuzzySearch.ts:31
CacheHas(key) == key \in DOMAIN cache

\* As if line 66 were missing: nothing is stored.
CacheSetSkipped(key, results) == cache

\* cache.set(cacheKey, results), fuzzySearch.ts:66
CacheSet(key, results) ==
  [k \in DOMAIN cache \cup {key} |-> IF k = key THEN results ELSE cache[k]]

\* As if line 27 compared with 2.
TooShortByOne(normalizedQuery) == Len(normalizedQuery) < MinQueryLength - 1

\* Whether the call returns before anything else (fuzzySearch.ts:27).
TooShort(normalizedQuery) == Len(normalizedQuery) < MinQueryLength

RECURSIVE SumLevCalls(_, _)
SumLevCalls(scored, i) ==
  IF i > Len(scored) THEN 0 ELSE scored[i].levCalls + SumLevCalls(scored, i + 1)

(***************************************************************************)
(* The records, queries and options the calls are drawn from               *)
(***************************************************************************)
MaxItems == 2

BlueWhale ==
  [id |-> Num(1), title |-> Txt(<<"B", "l", "u", "e", " ", "W", "h", "a", "l", "e">>)]

BlueWale ==
  [id |-> Num(2), title |-> Txt(<<"B", "l", "u", "e", " ", "W", "a", "l", "e">>)]

RedPanda ==
  [id |-> Num(3), title |-> Txt(<<"R", "e", "d", " ", "P", "a", "n", "d", "a">>)]

\* The title starts with the phrase the description is.
WhaleSong ==
  [id |-> Num(4),
   title |-> Txt(<<"B", "l", "u", "e", " ", "W", "h", "a", "l", "e", " ",
                   "S", "o", "n", "g">>),
   description |-> Txt(<<"b", "l", "u", "e", " ", "w", "h", "a", "l", "e", "!">>)]

\* Four words, three of which are one edit from "blue whale".
SplitWhale ==
  [id |-> Num(5),
   title |-> Txt(<<"T", "h", "e", " ", "B", "l", "u", "e", " ", "W", " ",
                   "h", "a", "l", "e">>),
   description |-> Txt(<<"W", "a", "l", "e", "!">>)]

\* No text at all: a null title, a numeric id and a description that
\* normalizes to the empty string.
Untitled == [id |-> Num(6), title |-> Null, description |-> Txt(<<" ", "-", " ">>)]

Records == {BlueWhale, BlueWale, RedPanda, WhaleSong, SplitWhale, Untitled}

RECURSIVE SeqsUpTo(_, _)
SeqsUpTo(S, n) ==
  IF n = 0 THEN {<<>>}
  ELSE LET shorter == SeqsUpTo(S, n - 1)
       IN shorter \cup {Append(s, x) : s \in shorter, x \in S}

ExampleRecords == <<BlueWhale, BlueWale, RedPanda>>

\* Two records of equal score ahead of a better one.
TiedRecords == <<BlueWale, SplitWhale, BlueWhale>>

Collections == SeqsUpTo(Records, MaxItems) \cup {ExampleRecords, TiedRecords}

BlueWhaleQuery == <<"B", "l", "u", "e", " ", "W", "h", "a", "l", "e">>

Queries ==
  { BlueWhaleQuery,
    <<"u", "n", "d", "e", "f", "i", "n", "e", "d">>,
    <<"N", "u", "l", "l", "?">>,
    <<"W", "-", "h", "!">> }

KeyLists ==
  { <<"title">>, <<"description">>,
    <<"title", "description">>, <<"description", "title">> }

Thresholds == {Undefined, Num(0), Num(1)}

Limits == {Undefined, Num(0), Num(1), Num(-1)}

\* What a sequence of searches is drawn from: two collections that differ, two
\* spellings of one normalized query and a query too short, a default and an
\* explicit value for the same threshold.
CachedCollections == {ExampleRecords, <<BlueWale, WhaleSong>>}

CachedQueries ==
  { BlueWhaleQuery,
    <<"b", "l", "u", "e", " ", "w", "h", "a", "l", "e", "!">>,
    <<"W", "-", "h", "!">> }

CachedKeyLists == {<<"title">>, <<"description", "title">>}

CachedThresholds == {Undefined, Num(4)}

CachedLimits == {Undefined, Num(1), Num(-1)}

NormalizedQueries == {normalize(query) : query \in Queries \cup CachedQueries}

\* The callback's result for every record, key list and normalized query of the
\* model. It depends on nothing else, so it is evaluated here once and read by
\* every call that scores.
ScoreTable ==
  [item \in Records, keys \in KeyLists, normalizedQuery \in NormalizedQueries |->
     ScoreItem(item, keys, normalizedQuery, split(normalizedQuery))]

(***************************************************************************)
(* One call of fuzzySearch, start to return                                *)
(*                                                                         *)
(* call.scored is what items.map produced, one [item, score, levCalls] per *)
(* record; call.scoringSteps counts the runs of the callback and           *)
(* call.levCalls the calls of levenshtein; call.repeated tells that the    *)
(* arguments are those of the call before.                                 *)
(***************************************************************************)
NoArgs ==
  [items |-> <<>>, query |-> <<>>, keys |-> <<>>,
   threshold |-> Undefined, limit |-> Undefined]

NoCall ==
  [args |-> NoArgs, path |-> "none", repeated |-> FALSE,
   normalizedQuery |-> <<>>, effectiveThreshold |-> 0, limit |-> 0,
   cacheKey |-> <<>>, scored |-> <<>>, scoringSteps |-> 0, levCalls |-> 0,
   results |-> <<>>]

fuzzySearch(items, query, keys, threshold, limit) ==
  LET args == [items |-> items, query |-> query, keys |-> keys,
               threshold |-> threshold, limit |-> limit]
      repeated == call.path # "none" /\ call.args = args
      normalizedQuery == normalize(query)
      lim == LimitOf(limit)
      effectiveThreshold == EffectiveThreshold(threshold, normalizedQuery)
      cacheKey == CacheKey(normalizedQuery, effectiveThreshold, lim)
      scored == [i \in 1..Len(items) |-> ScoreTable[items[i], keys, normalizedQuery]]
      results == TakeItems(SortByScore(FilterByThreshold(scored, effectiveThreshold)),
                           lim)
  IN IF TooShort(normalizedQuery)
     THEN /\ call' = [NoCall EXCEPT !.args = args, !.path = "short",
                                    !.repeated = repeated,
                                    !.normalizedQuery = normalizedQuery]
          /\ UNCHANGED cache
     ELSE IF CacheHas(cacheKey)
     THEN /\ call' = [args |-> args, path |-> "hit", repeated |-> repeated,
                      normalizedQuery |-> normalizedQuery,
                      effectiveThreshold |-> effectiveThreshold, limit |-> lim,
                      cacheKey |-> cacheKey, scored |-> <<>>,
                      scoringSteps |-> 0, levCalls |-> 0,
                      results |-> cache[cacheKey]]
          /\ UNCHANGED cache
     ELSE /\ call' = [args |-> args, path |-> "miss", repeated |-> repeated,
                      normalizedQuery |-> normalizedQuery,
                      effectiveThreshold |-> effectiveThreshold, limit |-> lim,
                      cacheKey |-> cacheKey, scored |-> scored,
                      scoringSteps |-> Len(scored),
                      levCalls |-> SumLevCalls(scored, 1),
                      results |-> results]
          /\ cache' = CacheSet(cacheKey, results)

(***************************************************************************)
(* Direct calls of levenshtein                                             *)
(***************************************************************************)
MaxLen == 3

LevAlphabet == {"a", "b"}

ShortStrings == SeqsUpTo(LevAlphabet, MaxLen)

\* n times the character c
Repeat(c, n) == [i \in 1..n |-> c]

\* Pairs whose distance is the first a Uint16 cannot hold, and the last it can.
LongPairs ==
  { <<Repeat("a", Uint16Modulus), <<"b">>>>,
    <<Repeat("a", Uint16Modulus - 1), <<"b">>>> }

LevInputs == (ShortStrings \X ShortStrings) \cup LongPairs

NoLev == [a |-> <<>>, b |-> <<>>, done |-> FALSE, d |-> 0]

(***************************************************************************)
(* Specifications                                                          *)
(***************************************************************************)
Init == cache = <<>> /\ call = NoCall /\ lev = NoLev

\* The first search after the module is loaded, over every combination of inputs.
FirstSearch ==
  /\ call.path = "none"
  /\ \E items \in Collections, query \in Queries, keys \in KeyLists,
        threshold \in Thresholds, limit \in Limits :
       fuzzySearch(items, query, keys, threshold, limit)
  /\ UNCHANGED lev

NextFirst == FirstSearch

SpecFirst == Init /\ [][NextFirst]_vars

\* Any number of searches, one after the other, sharing the cache.
Search ==
  /\ \E items \in CachedCollections, query \in CachedQueries,
        keys \in CachedKeyLists, threshold \in CachedThresholds,
        limit \in CachedLimits :
       fuzzySearch(items, query, keys, threshold, limit)
  /\ UNCHANGED lev

Next == Search

Spec == Init /\ [][Next]_vars

\* One call of levenshtein.
LevCall ==
  /\ ~lev.done
  /\ \E pair \in LevInputs :
       lev' = [a |-> pair[1], b |-> pair[2], done |-> TRUE,
               d |-> levenshtein(pair[1], pair[2])]
  /\ UNCHANGED <<cache, call>>

NextLev == LevCall

SpecLev == Init /\ [][NextLev]_vars

(***************************************************************************)
(* What the claims speak of                                                *)
(***************************************************************************)
SetMin(S) == CHOOSE x \in S : \A y \in S : x <= y

\* The strings one insertion, deletion or substitution away from str, over
\* the given characters and no longer than maxLength.
OneEditAway(str, chars, maxLength) ==
  LET n == Len(str)
  IN {SubSeq(str, 1, i - 1) \o SubSeq(str, i + 1, n) : i \in 1..n}
     \cup {[str EXCEPT ![i] = c] : i \in 1..n, c \in chars}
     \cup (IF n < maxLength
           THEN {SubSeq(str, 1, i) \o <<c>> \o SubSeq(str, i + 1, n) :
                   i \in 0..n, c \in chars}
           ELSE {})

RECURSIVE EditsToReach(_, _, _, _, _)
EditsToReach(reached, target, edits, chars, maxLength) ==
  IF target \in reached THEN edits
  ELSE EditsToReach(
         reached \cup UNION {OneEditAway(s, chars, maxLength) : s \in reached},
         target, edits + 1, chars, maxLength)

\* The least number of single-character edits that turn a into b. A shortest
\* sequence of edits needs no string longer than the longer of a and b.
MinEdits(a, b) ==
  EditsToReach({a}, b, 0, Range(a) \cup Range(b), Max2(Len(a), Len(b)))

\* The recurrence of the edit distance over the natural numbers, row by row.
RECURSIVE ExactRow(_, _, _, _, _, _)
ExactRow(a, b, i, prev, j, row) ==
  IF j > Len(b) THEN row
  ELSE ExactRow(a, b, i, prev, j + 1,
                Append(row, IF a[i] = b[j] THEN prev[j]
                            ELSE 1 + Min3(prev[j], row[j], prev[j + 1])))

RECURSIVE ExactRows(_, _, _, _, _)
ExactRows(a, b, lo, hi, prev) ==
  IF lo > hi THEN prev
  ELSE IF lo = hi THEN ExactRow(a, b, lo, prev, 1, <<lo>>)
  ELSE LET mid == (lo + hi) \div 2
           upper == ExactRows(a, b, lo, mid, prev)
       IN IF Len(upper) = Len(prev)
          THEN ExactRows(a, b, mid + 1, hi, upper)
          ELSE upper

RefDistance(a, b) ==
  ExactRows(a, b, 1, Len(a), [j \in 1..(Len(b) + 1) |-> j - 1])[Len(b) + 1]

\* The normalized text of the fields a key list names.
FieldText(item, key) == normalize(ToStringJS(GetProperty(item, key)))

ListedFields(item, keys) ==
  {FieldText(item, keys[k]) : k \in 1..Len(keys)} \ {<<>>}

HasExactField(item, keys, normalizedQuery) ==
  \E k \in 1..Len(keys) : FieldText(item, keys[k]) = normalizedQuery

ShortCircuits(item, keys, normalizedQuery) ==
  \E f \in ListedFields(item, keys) : f = normalizedQuery \/ startsWith(f, normalizedQuery)

\* Every contiguous run of 1..maxWords words of the field, joined by a space.
WordRuns(fieldValue, maxWords) ==
  LET words == split(fieldValue)
      n == Len(words)
  IN {join(SubSeq(words, r[1], r[2])) :
        r \in {r \in (1..n) \X (1..n) : r[1] <= r[2] /\ r[2] - r[1] < maxWords}}

FieldCandidates(fieldValue, normalizedQuery) ==
  (IF includes(fieldValue, normalizedQuery) THEN {2} ELSE {})
    \cup {levenshtein(run, normalizedQuery) :
            run \in WordRuns(fieldValue, Len(split(normalizedQuery)) + 1)}
    \cup {levenshtein(fieldValue, normalizedQuery)}

MinimumScore(item, keys, normalizedQuery) ==
  LET fields == ListedFields(item, keys)
  IN IF fields = {} THEN Infinity
     ELSE SetMin(UNION {FieldCandidates(f, normalizedQuery) : f \in fields})

MinimumScoreTable ==
  [item \in Records, keys \in KeyLists, normalizedQuery \in NormalizedQueries |->
     MinimumScore(item, keys, normalizedQuery)]

\* The positions of the input collection whose score passes the threshold the
\* call used, ordered by score and, among equal scores, by position.
KeptPositions ==
  {p \in 1..Len(call.scored) : call.scored[p].score <= call.effectiveThreshold}

RanksBefore(p, q) ==
  \/ call.scored[p].score < call.scored[q].score
  \/ call.scored[p].score = call.scored[q].score /\ p < q

Ranking ==
  [r \in 1..Cardinality(KeptPositions) |->
     CHOOSE p \in KeptPositions :
       Cardinality({q \in KeptPositions : RanksBefore(q, p)}) = r - 1]

PositionsIn(results, item) == {i \in 1..Len(results) : results[i] = item}

\* The threshold and the limit the specification gives a call.
ClaimedThreshold(args) ==
  IF args.threshold.kind = "number" THEN args.threshold.v
  ELSE Max2(3, (45 * Len(normalize(args.query))) \div 100)

ClaimedLimit(args) == IF args.limit.kind = "number" THEN args.limit.v ELSE 5

\* C1: a record with a listed field that normalizes to the normalized query
\* gets score 0 and is returned before every record without such a field.
C1_ExactMatchFirst ==
  call.path = "miss" =>
    \A p \in 1..Len(call.args.items) :
      HasExactField(call.args.items[p], call.args.keys, call.normalizedQuery) =>
        /\ call.scored[p].score = 0
        /\ \A q \in 1..Len(call.args.items) :
             ( /\ ~HasExactField(call.args.items[q], call.args.keys,
                                 call.normalizedQuery)
               /\ call.args.items[q] \in Range(call.results) )
             => \E i \in PositionsIn(call.results, call.args.items[p]) :
                  \A j \in PositionsIn(call.results, call.args.items[q]) : i < j

\* C2: a call with the arguments of the call before it returns the same
\* sequence and neither runs the scoring callback nor calls levenshtein.
C2_RepeatedCall ==
  [][ (call.path # "none" /\ call'.args = call.args)
      => /\ call'.results = call.results
         /\ call'.scoringSteps = 0
         /\ call'.levCalls = 0 ]_vars

C2_Witness ==
  /\ call.repeated
  /\ call.path = "hit"
  /\ call.results # <<>>

\* C3: levenshtein(a, b) is the edit distance of a and b, whatever their length.
C3_LevenshteinIsEditDistance ==
  lev.done => lev.d = RefDistance(lev.a, lev.b)

\* On the short strings levenshtein, the recurrence and the least number of
\* edits agree.
ShortDistancesExact ==
  (lev.done /\ Len(lev.a) <= MaxLen + 1 /\ Len(lev.b) <= MaxLen + 1) =>
    /\ lev.d = MinEdits(lev.a, lev.b)
    /\ RefDistance(lev.a, lev.b) = MinEdits(lev.a, lev.b)

\* C4: a query whose normalized form is shorter than 3 gets the empty sequence,
\* whatever the other arguments and the cache hold.
C4_ShortQueryEmpty ==
  (call.path # "none" /\ Len(normalize(call.args.query)) < 3) =>
    call.results = <<>>

C4_Witness ==
  /\ call.path = "short"
  /\ DOMAIN cache # {}
  /\ call.args.items # <<>>

\* C5: a record whose listed fields are all absent or not text scores as a
\* record without any field does, and is not returned.
C5_MissingFieldsSkipped ==
  call.path = "miss" =>
    \A p \in 1..Len(call.args.items) :
      (\A k \in 1..Len(call.args.keys) :
         GetProperty(call.args.items[p], call.args.keys[k]).kind # "string")
      => /\ call.scored[p].score = Infinity
         /\ call.args.items[p] \notin Range(call.results)

\* C6: a computed result lists records by ascending score, records of equal
\* score in the order of the input collection.
C6_RankingStable ==
  call.path = "miss" =>
    /\ Len(call.results) <= Len(Ranking)
    /\ \A i \in 1..Len(call.results) :
         call.results[i] = call.args.items[Ranking[i]]

C6_Witness ==
  /\ call.path = "miss"
  /\ \E i, j \in 1..Len(call.results) :
       /\ i < j
       /\ call.scored[Ranking[i]].score = call.scored[Ranking[j]].score
       /\ call.results[i] # call.results[j]
  /\ \E i, j \in 1..Len(call.results) : i < j /\ Ranking[i] > Ranking[j]

\* C7: a computed result holds no record whose score exceeds the caller's
\* threshold when one is supplied, 0 included, and max(3, floor(0.45 * length
\* of the normalized query)) otherwise; that is 3 for "hello".
C7_ThresholdFilter ==
  /\ EffectiveThreshold(Undefined, <<"h", "e", "l", "l", "o">>) = 3
  /\ call.path = "miss" =>
       \A p \in 1..Len(call.args.items) :
         call.scored[p].score > ClaimedThreshold(call.args)
           => call.args.items[p] \notin Range(call.results)

C7_Witness ==
  /\ call.path = "miss"
  /\ call.args.threshold = Num(0)
  /\ call.results # <<>>
  /\ \E p \in 1..Len(call.args.items) : call.scored[p].score = 1

CacheKeyDistinct ==
  \A s, t \in NormalizedQueries \X {0, 1, 3, 4} \X {-1, 0, 1, 5} :
    CacheKey(s[1], s[2], s[3]) = CacheKey(t[1], t[2], t[3]) => s = t

\* C10: an entry of the cache is what the first call that computed its key
\* returned; no later call changes or removes it, and every later call with
\* that key returns it without scoring, whatever records and fields it passes.
C10_CacheWriteOnce ==
  [][ /\ CacheKeyDistinct
      /\ \A k \in DOMAIN cache : k \in DOMAIN cache' /\ cache'[k] = cache[k]
      /\ (call'.path # "short" /\ call'.cacheKey \in DOMAIN cache)
           => /\ call'.results = cache[call'.cacheKey]
              /\ call'.scoringSteps = 0
              /\ call'.levCalls = 0
      /\ (call'.path # "short" /\ call'.cacheKey \notin DOMAIN cache)
           => /\ call'.cacheKey \in DOMAIN cache'
              /\ cache'[call'.cacheKey] = call'.results ]_vars

\* A call that got an entry computed from other records and other fields.
C10_Witness ==
  /\ call.path = "hit"
  /\ call.results # <<>>
  /\ \E p \in 1..Len(call.results) : call.results[p] \notin Range(call.args.items)

====
